---- MODULE Spec2Model ----
(***************************************************************************)
(* Model of the bsdiff codec: suffix sorting (qsufsort, split), longest    *)
(* match search (search, matchlen), the diff engine (BSDiff) and the patch *)
(* applier (BSPatch).  Go slices are 0-indexed; they are kept here as TLA+ *)
(* sequences and read through At / written through Put with the source's  *)
(* 0-based indices.                                                        *)
(***************************************************************************)
EXTENDS Integers, Sequences, FiniteSets, TLC

\* ------------------------------------------------------------------ bounds
\* Every buffer of length 0..MaxLen over Alphabet is used as old and as new.
MaxLen == 3

\* Byte values of the exhaustively enumerated buffers (0 and 255 make the
\* byte subtraction and addition wrap).
Alphabet == {0, 1, 255}

\* ------------------------------------------------------------- Go helpers
At(s, i) == s[i + 1]

Put(s, i, v) == [s EXCEPT ![i + 1] = v]

\* s[i:]
From(s, i) == SubSeq(s, i + 1, Len(s))

swap(a, i, j) == [a EXCEPT ![i + 1] = a[j + 1], ![j + 1] = a[i + 1]]

Zeros(n) == [k \in 1..n |-> 0]

\* byte arithmetic wraps: a - b and a + b on uint8
\* The difference kept without the wrap.
ByteSubSigned(a, b) == a - b

\* nbuf[lastscan+i] - obuf[lastpos+i] on bytes (line 281)
ByteSub(a, b) == (a - b) % 256

\* The sum kept without the wrap.
ByteAddWide(a, b) == a + b

ByteAdd(a, b) == (a + b) % 256

\* bytes.Compare(a, b) < 0
RECURSIVE BytesLess(_, _)
BytesLess(a, b) ==
    IF Len(b) = 0 THEN FALSE
    ELSE IF Len(a) = 0 THEN TRUE
    ELSE IF a[1] /= b[1] THEN a[1] < b[1]
    ELSE BytesLess(Tail(a), Tail(b))

\* ------------------------------------------------------------------ split
\* Inner selection loop of the short branch (lines 22-31): [I, j].  The loop
\* body is splitSelectAt, given v = V[I[k+i]+h].
RECURSIVE splitSelect(_, _, _, _, _, _, _, _)
RECURSIVE splitSelectAt(_, _, _, _, _, _, _, _, _)
splitSelect(I, V, lim, h, k, i, j, x) ==
    IF k + i >= lim THEN [I |-> I, j |-> j]
    ELSE splitSelectAt(I, V, lim, h, k, i, j, x, At(V, At(I, k + i) + h))

splitSelectAt(I, V, lim, h, k, i, j, x, v) ==
    IF v < x THEN splitSelect(swap(I, k + i, k), V, lim, h, k, i + 1, 1, v)
    ELSE IF v = x THEN splitSelect(swap(I, k + i, k + j), V, lim, h, k, i + 1, j + 1, x)
    ELSE splitSelect(I, V, lim, h, k, i + 1, j, x)

\* for i = 0; i < cnt; i++ { V[I[base+i]] = rank }  (lines 32-34 and 84-86)
RECURSIVE splitRank(_, _, _, _, _, _)
splitRank(I, V, base, cnt, rank, i) ==
    IF i >= cnt THEN V
    ELSE splitRank(I, Put(V, At(I, base + i), rank), base, cnt, rank, i + 1)

\* Short branch, length < 16 (lines 19-39).  splitShortGroup is the rest of the
\* loop body once the selection loop has returned r = [I, j].
RECURSIVE splitShort(_, _, _, _, _)
RECURSIVE splitShortGroup(_, _, _, _, _)
splitShort(I, V, lim, h, k) ==
    IF k >= lim THEN [I |-> I, V |-> V]
    ELSE splitShortGroup(V, lim, h, k,
                         splitSelect(I, V, lim, h, k, 1, 1, At(V, At(I, k) + h)))

splitShortGroup(V, lim, h, k, r) ==
    splitShort(IF r.j = 1 THEN Put(r.I, k, -1) ELSE r.I,
               splitRank(r.I, V, k, r.j, k + r.j - 1, 0),
               lim, h, k + r.j)

\* Counting loop of the long branch (lines 45-52): <<jj, kk>>.
RECURSIVE splitCount(_, _, _, _, _, _, _, _)
RECURSIVE splitCountAt(_, _, _, _, _, _, _, _, _)
splitCount(I, V, h, x, i, lim, jj, kk) ==
    IF i >= lim THEN <<jj, kk>>
    ELSE splitCountAt(I, V, h, x, i, lim, jj, kk, At(V, At(I, i) + h))

splitCountAt(I, V, h, x, i, lim, jj, kk, v) ==
    splitCount(I, V, h, x, i + 1, lim,
               IF v < x THEN jj + 1 ELSE jj,
               IF v = x THEN kk + 1 ELSE kk)

\* First partition loop (lines 59-69): [I, j, k].
RECURSIVE splitPartLow(_, _, _, _, _, _, _, _, _)
RECURSIVE splitPartLowAt(_, _, _, _, _, _, _, _, _, _)
splitPartLow(I, V, h, x, jj, kk, i, j, k) ==
    IF i >= jj THEN [I |-> I, j |-> j, k |-> k]
    ELSE splitPartLowAt(I, V, h, x, jj, kk, i, j, k, At(V, At(I, i) + h))

splitPartLowAt(I, V, h, x, jj, kk, i, j, k, v) ==
    IF v < x THEN splitPartLow(I, V, h, x, jj, kk, i + 1, j, k)
    ELSE IF v = x THEN splitPartLow(swap(I, i, jj + j), V, h, x, jj, kk, i, j + 1, k)
    ELSE splitPartLow(swap(I, i, kk + k), V, h, x, jj, kk, i, j, k + 1)

\* Second partition loop (lines 71-78): I.
RECURSIVE splitPartMid(_, _, _, _, _, _, _, _)
splitPartMid(I, V, h, x, jj, kk, j, k) ==
    IF jj + j >= kk THEN I
    ELSE IF At(V, At(I, jj + j) + h) = x
    THEN splitPartMid(I, V, h, x, jj, kk, j + 1, k)
    ELSE splitPartMid(swap(I, jj + j, kk + k), V, h, x, jj, kk, j, k + 1)

\* Length below which split sorts by selection instead of partitioning.
ShortSplit == 16

\* split (lines 15-94).  The long branch is cut where a value computed by one
\* part is used by the next: splitCounted receives the counts of lines 45-52,
\* splitParted the result p of the first partition loop, splitEqual the arrays
\* after the recursion on the smaller elements, splitHigh those after the
\* re-ranking of the equal elements.
RECURSIVE split(_, _, _, _, _)
RECURSIVE splitCounted(_, _, _, _, _, _, _)
RECURSIVE splitParted(_, _, _, _, _, _, _, _)
RECURSIVE splitLow(_, _, _, _, _, _, _)
RECURSIVE splitEqual(_, _, _, _, _, _)
RECURSIVE splitHigh(_, _, _, _, _, _)
split(I, V, start, length, h) ==
    IF length < ShortSplit THEN splitShort(I, V, start + length, h, start)
    ELSE splitCounted(I, V, start, length, h, At(V, At(I, start + length \div 2) + h),
                      splitCount(I, V, h, At(V, At(I, start + length \div 2) + h),
                                 start, start + length, 0, 0))

splitCounted(I, V, start, length, h, x, cnt) ==
    splitParted(V, start, length, h, x, cnt[1] + start, cnt[2] + cnt[1] + start,
                splitPartLow(I, V, h, x, cnt[1] + start, cnt[2] + cnt[1] + start,
                             start, 0, 0))

splitParted(V, start, length, h, x, jj, kk, p) ==
    splitLow(splitPartMid(p.I, V, h, x, jj, kk, p.j, p.k), V, start, length, h, jj, kk)

splitLow(I, V, start, length, h, jj, kk) ==
    splitEqual(IF jj > start THEN split(I, V, start, jj - start, h)
               ELSE [I |-> I, V |-> V],
               start, length, h, jj, kk)

splitEqual(lo, start, length, h, jj, kk) ==
    splitHigh(IF jj = kk - 1 THEN Put(lo.I, jj, -1) ELSE lo.I,
              splitRank(lo.I, lo.V, jj, kk - jj, kk - 1, 0),
              start, length, h, kk)

splitHigh(I, V, start, length, h, kk) ==
    IF start + length > kk THEN split(I, V, kk, start + length - kk, h)
    ELSE [I |-> I, V |-> V]

\* --------------------------------------------------------------- qsufsort
\* var buckets [256]int
NumBuckets == 256

\* Lines 104-111: count each byte value, turn the counts into running sums
\* (buckets[c] = number of bytes <= c), then shift the array up by one slot and
\* clear slot 0: buckets[c] ends as the number of bytes of obuf smaller than c.
bucketStart(obuf) ==
    [c \in 0..(NumBuckets - 1) |-> Cardinality({i \in 1..Len(obuf) : obuf[i] < c})]

\* for i, c := range obuf { buckets[c]++; I[buckets[c]] = i }  (lines 113-116)
RECURSIVE bucketPlace(_, _, _, _)
bucketPlace(obuf, buckets, I, i) ==
    IF i >= Len(obuf) THEN [buckets |-> buckets, I |-> I]
    ELSE bucketPlace(obuf, [buckets EXCEPT ![At(obuf, i)] = @ + 1],
                     Put(I, buckets[At(obuf, i)] + 1, i), i + 1)

\* for i = 1; i < 256; i++ { if buckets[i] == buckets[i-1]+1 { I[buckets[i]] = -1 } }
\* (lines 124-128): every write stores -1, so the loop is one update of I.
bucketMark(buckets, I) ==
    [k \in DOMAIN I |->
        IF \E i \in 1..(NumBuckets - 1) :
               buckets[i] = buckets[i - 1] + 1 /\ buckets[i] = k - 1
        THEN -1 ELSE I[k]]

\* Lines 99-129: the bucket sort that initialises I and V.
\* qsufsortPlaced is lines 118-129, given pl = [buckets, I] after lines 113-116.
qsufsortPlaced(obuf, pl) ==
    [I |-> Put(bucketMark(pl.buckets, Put(pl.I, 0, Len(obuf))), 0, -1),
     V |-> [j \in 1..(Len(obuf) + 1) |->
               IF j = Len(obuf) + 1 THEN 0 ELSE pl.buckets[obuf[j]]]]

qsufsortInit(obuf) ==
    qsufsortPlaced(obuf, bucketPlace(obuf, bucketStart(obuf), Zeros(Len(obuf) + 1), 0))

\* Inner loop of one doubling pass (lines 133-146): [I, V, i, n].
\* qsufsortGroup is the else branch of lines 137-145 for an unsorted group of
\* n1 = V[I[i]] + 1 - i elements, qsufsortSplit what follows the call of split.
RECURSIVE qsufsortScan(_, _, _, _, _, _)
RECURSIVE qsufsortGroup(_, _, _, _, _, _, _)
RECURSIVE qsufsortSplit(_, _, _, _)
qsufsortScan(I, V, len, h, i, n) ==
    IF i >= len + 1 THEN [I |-> I, V |-> V, i |-> i, n |-> n]
    ELSE IF At(I, i) < 0
    THEN qsufsortScan(I, V, len, h, i - At(I, i), n - At(I, i))
    ELSE qsufsortGroup(I, V, len, h, i, n, At(V, At(I, i)) + 1 - i)

qsufsortGroup(I, V, len, h, i, n, n1) ==
    qsufsortSplit(split(IF n /= 0 THEN Put(I, i - n, -n) ELSE I, V, i, n1, h),
                  len, h, i + n1)

qsufsortSplit(r, len, h, i) == qsufsortScan(r.I, r.V, len, h, i, 0)

\* One iteration of the doubling loop (lines 132-149).
qsufsortClose(r) ==
    [I |-> IF r.n /= 0 THEN Put(r.I, r.i - r.n, -r.n) ELSE r.I, V |-> r.V]

qsufsortPass(I, V, len, h) == qsufsortClose(qsufsortScan(I, V, len, h, 0, 0))

\* Loop condition of line 131 negated: the whole array is one sorted run.
qsufsortSorted(I, len) == At(I, 0) = -(len + 1)

\* The inversion stopping one element early (i < len(obuf)).
RECURSIVE qsufsortInvertShort(_, _, _)
qsufsortInvertShort(I, V, i) ==
    IF i >= Len(V) - 1 THEN I
    ELSE qsufsortInvertShort(Put(I, At(V, i), i), V, i + 1)

\* for i = 0; i < len(obuf)+1; i++ { I[V[i]] = i }  (lines 152-154)
RECURSIVE qsufsortInvert(_, _, _)
qsufsortInvert(I, V, i) ==
    IF i >= Len(V) THEN I
    ELSE qsufsortInvert(Put(I, At(V, i), i), V, i + 1)

RECURSIVE qsufsortLoop(_, _, _)
qsufsortLoop(s, len, h) ==
    IF qsufsortSorted(s.I, len) THEN qsufsortInvert(s.I, s.V, 0)
    ELSE qsufsortLoop(qsufsortPass(s.I, s.V, len, h), len, h + h)

qsufsort(obuf) == qsufsortLoop(qsufsortInit(obuf), Len(obuf), 1)

\* ------------------------------------------------------- matchlen, search
RECURSIVE matchlenFrom(_, _, _)
matchlenFrom(a, b, i) ==
    IF i < Len(a) /\ i < Len(b) /\ At(a, i) = At(b, i)
    THEN matchlenFrom(a, b, i + 1)
    ELSE i

matchlen(a, b) == matchlenFrom(a, b, 0)

\* The choice with the test x >= y: a tie goes to the lower end.
searchPickLow(I, st, en, x, y) ==
    IF x >= y THEN [pos |-> At(I, st), n |-> x]
    ELSE [pos |-> At(I, en), n |-> y]

\* Base case of search (lines 167-175): searchPick chooses between the two
\* ends given their match lengths x and y.
searchPick(I, st, en, x, y) ==
    IF x > y THEN [pos |-> At(I, st), n |-> x]
    ELSE [pos |-> At(I, en), n |-> y]

searchBase(I, obuf, nbuf, st, en) ==
    searchPick(I, st, en, matchlen(From(obuf, At(I, st)), nbuf),
                          matchlen(From(obuf, At(I, en)), nbuf))

\* The bisection with the operands of the comparison exchanged.
searchNarrowSwapped(I, obuf, nbuf, st, en) ==
    IF BytesLess(nbuf, From(obuf, At(I, st + (en - st) \div 2)))
    THEN <<st + (en - st) \div 2, en>>
    ELSE <<st, st + (en - st) \div 2>>

\* Bisection step (lines 177-181): the next range <<st, en>>.
searchNarrow(I, obuf, nbuf, st, en) ==
    IF BytesLess(From(obuf, At(I, st + (en - st) \div 2)), nbuf)
    THEN <<st + (en - st) \div 2, en>>
    ELSE <<st, st + (en - st) \div 2>>

\* The range on which search reaches its base case.
RECURSIVE searchRange(_, _, _, _)
searchRange(I, obuf, nbuf, r) ==
    IF r[2] - r[1] < 2 THEN r
    ELSE searchRange(I, obuf, nbuf, searchNarrow(I, obuf, nbuf, r[1], r[2]))

RECURSIVE search(_, _, _, _, _)
RECURSIVE searchIn(_, _, _, _)
search(I, obuf, nbuf, st, en) ==
    IF en - st < 2 THEN searchBase(I, obuf, nbuf, st, en)
    ELSE searchIn(I, obuf, nbuf, searchNarrow(I, obuf, nbuf, st, en))

searchIn(I, obuf, nbuf, r) == search(I, obuf, nbuf, r[1], r[2])

\* ----------------------------------------------------------------- BSDiff
\* for ; scsc < scan+length; scsc++ { ... oldscore++ }  (lines 214-219): <<scsc, oldscore>>
RECURSIVE scoreAhead(_, _, _, _, _, _)
scoreAhead(obuf, nbuf, lastoffset, lim, scsc, oldscore) ==
    IF scsc >= lim THEN <<scsc, oldscore>>
    ELSE scoreAhead(obuf, nbuf, lastoffset, lim, scsc + 1,
                    IF scsc + lastoffset < Len(obuf)
                       /\ At(obuf, scsc + lastoffset) = At(nbuf, scsc)
                    THEN oldscore + 1 ELSE oldscore)

\* Slack a fresh match must have over the running match to replace it (line 221).
MatchSlack == 8

\* for scsc := scan; scan < len(nbuf); scan++ { ... }  (lines 211-228).
\* scanMatched is the loop body after the search returned m = (pos, length),
\* scanScored the rest of it after the scoring loop returned sc = <<scsc, oldscore>>.
RECURSIVE scanLoop(_, _, _, _, _, _, _, _, _)
RECURSIVE scanMatched(_, _, _, _, _, _, _, _)
RECURSIVE scanScored(_, _, _, _, _, _, _)
scanLoop(I, obuf, nbuf, lastoffset, scan, scsc, oldscore, pos, length) ==
    IF scan >= Len(nbuf)
    THEN [scan |-> scan, pos |-> pos, length |-> length, oldscore |-> oldscore]
    ELSE scanMatched(I, obuf, nbuf, lastoffset, scan, scsc, oldscore,
                     search(I, obuf, From(nbuf, scan), 0, Len(obuf)))

scanMatched(I, obuf, nbuf, lastoffset, scan, scsc, oldscore, m) ==
    scanScored(I, obuf, nbuf, lastoffset, scan, m,
               scoreAhead(obuf, nbuf, lastoffset, scan + m.n, scsc, oldscore))

\* The rest of the loop body with the break of line 221 also taken for an
\* empty match.
scanScoredOnEmpty(I, obuf, nbuf, lastoffset, scan, m, sc) ==
    IF m.n = sc[2] \/ m.n > sc[2] + MatchSlack
    THEN [scan |-> scan, pos |-> m.pos, length |-> m.n, oldscore |-> sc[2]]
    ELSE scanLoop(I, obuf, nbuf, lastoffset, scan + 1, sc[1],
                  IF scan + lastoffset < Len(obuf)
                     /\ At(obuf, scan + lastoffset) = At(nbuf, scan)
                  THEN sc[2] - 1 ELSE sc[2],
                  m.pos, m.n)

scanScored(I, obuf, nbuf, lastoffset, scan, m, sc) ==
    IF (m.n = sc[2] /\ m.n /= 0) \/ m.n > sc[2] + MatchSlack
    THEN [scan |-> scan, pos |-> m.pos, length |-> m.n, oldscore |-> sc[2]]
    ELSE scanLoop(I, obuf, nbuf, lastoffset, scan + 1, sc[1],
                  IF scan + lastoffset < Len(obuf)
                     /\ At(obuf, scan + lastoffset) = At(nbuf, scan)
                  THEN sc[2] - 1 ELSE sc[2],
                  m.pos, m.n)

\* Forward extension (lines 231-242): lenf.  extendForwardAt is the loop body
\* after s has been updated for position i and i incremented.
RECURSIVE extendForward(_, _, _, _, _, _, _, _, _)
RECURSIVE extendForwardAt(_, _, _, _, _, _, _, _, _)
extendForward(obuf, nbuf, lastscan, lastpos, scan, i, s, Sf, lenf) ==
    IF lastscan + i < scan /\ lastpos + i < Len(obuf)
    THEN extendForwardAt(obuf, nbuf, lastscan, lastpos, scan, i + 1,
                         IF At(obuf, lastpos + i) = At(nbuf, lastscan + i) THEN s + 1 ELSE s,
                         Sf, lenf)
    ELSE lenf

extendForwardAt(obuf, nbuf, lastscan, lastpos, scan, i, s, Sf, lenf) ==
    IF s * 2 - i > Sf * 2 - lenf
    THEN extendForward(obuf, nbuf, lastscan, lastpos, scan, i, s, s, i)
    ELSE extendForward(obuf, nbuf, lastscan, lastpos, scan, i, s, Sf, lenf)

\* Backward extension (lines 246-255): lenb.
RECURSIVE extendBackward(_, _, _, _, _, _, _, _, _)
RECURSIVE extendBackwardAt(_, _, _, _, _, _, _, _, _)
extendBackward(obuf, nbuf, lastscan, scan, pos, i, s, Sb, lenb) ==
    IF scan >= lastscan + i /\ pos >= i
    THEN extendBackwardAt(obuf, nbuf, lastscan, scan, pos, i,
                          IF At(obuf, pos - i) = At(nbuf, scan - i) THEN s + 1 ELSE s,
                          Sb, lenb)
    ELSE lenb

extendBackwardAt(obuf, nbuf, lastscan, scan, pos, i, s, Sb, lenb) ==
    IF s * 2 - i > Sb * 2 - lenb
    THEN extendBackward(obuf, nbuf, lastscan, scan, pos, i + 1, s, s, i)
    ELSE extendBackward(obuf, nbuf, lastscan, scan, pos, i + 1, s, Sb, lenb)

\* Overlap resolution loop (lines 263-274): lens.  fwd = <<new index, old
\* index>> where the overlap starts in the forward run, bwd the same for the
\* backward run; resolveOverlapAt receives s after both tests of position i.
RECURSIVE resolveOverlap(_, _, _, _, _, _, _, _, _)
RECURSIVE resolveOverlapAt(_, _, _, _, _, _, _, _, _)
resolveOverlap(obuf, nbuf, fwd, bwd, overlap, i, s, Ss, lens) ==
    IF i >= overlap THEN lens
    ELSE resolveOverlapAt(obuf, nbuf, fwd, bwd, overlap, i,
             s + (IF At(nbuf, fwd[1] + i) = At(obuf, fwd[2] + i) THEN 1 ELSE 0)
               - (IF At(nbuf, bwd[1] + i) = At(obuf, bwd[2] + i) THEN 1 ELSE 0),
             Ss, lens)

resolveOverlapAt(obuf, nbuf, fwd, bwd, overlap, i, s, Ss, lens) ==
    IF s > Ss THEN resolveOverlap(obuf, nbuf, fwd, bwd, overlap, i + 1, s, s, i + 1)
    ELSE resolveOverlap(obuf, nbuf, fwd, bwd, overlap, i + 1, s, Ss, lens)

\* The extents left as they were, overlapping.
extentsUnresolved(lenf, lenb, overlap, lens) == <<lenf, lenb>>

\* Lines 258-278 given the overlap and lens: <<lenf, lenb>>.
extentsResolved(lenf, lenb, overlap, lens) == <<lenf + lens - overlap, lenb - lens>>

\* Lines 258-278 given the raw extents: <<lenf, lenb>>.
extentsOf(obuf, nbuf, lastscan, lastpos, scan, pos, lenf, lenb) ==
    IF lastscan + lenf > scan - lenb
    THEN extentsResolved(lenf, lenb, (lastscan + lenf) - (scan - lenb),
             resolveOverlap(obuf, nbuf,
                 <<lastscan + lenf - ((lastscan + lenf) - (scan - lenb)),
                   lastpos + lenf - ((lastscan + lenf) - (scan - lenb))>>,
                 <<scan - lenb, pos - lenb>>,
                 (lastscan + lenf) - (scan - lenb), 0, 0, 0, 0))
    ELSE <<lenf, lenb>>

\* Lines 231-278: the extents <<lenf, lenb>> of the forward and backward runs.
extents(obuf, nbuf, lastscan, lastpos, scan, pos) ==
    extentsOf(obuf, nbuf, lastscan, lastpos, scan, pos,
              extendForward(obuf, nbuf, lastscan, lastpos, scan, 0, 0, 0, 0),
              IF scan < Len(nbuf)
              THEN extendBackward(obuf, nbuf, lastscan, scan, pos, 1, 0, 0, 0)
              ELSE 0)

\* The diff bytes stored without subtracting the old bytes.
writeDiffRaw(db, dblen, obuf, nbuf, lastscan, lastpos, lenf) ==
    [j \in DOMAIN db |->
        IF j - 1 >= dblen /\ j - 1 < dblen + lenf
        THEN At(nbuf, lastscan + (j - 1 - dblen))
        ELSE db[j]]

\* for i := 0; i < lenf; i++ { db[dblen+i] = nbuf[lastscan+i] - obuf[lastpos+i] }
writeDiff(db, dblen, obuf, nbuf, lastscan, lastpos, lenf) ==
    [j \in DOMAIN db |->
        IF j - 1 >= dblen /\ j - 1 < dblen + lenf
        THEN ByteSub(At(nbuf, lastscan + (j - 1 - dblen)), At(obuf, lastpos + (j - 1 - dblen)))
        ELSE db[j]]

\* for i := 0; i < cnt; i++ { eb[eblen+i] = nbuf[from+i] }
writeExtra(eb, eblen, nbuf, from, cnt) ==
    [j \in DOMAIN eb |->
        IF j - 1 >= eblen /\ j - 1 < eblen + cnt
        THEN At(nbuf, from + (j - 1 - eblen))
        ELSE eb[j]]

\* The test of line 230 without its second half.
shouldEmitOnMismatch(scan, length, oldscore, nbuf) == length /= oldscore

\* if length != oldscore || scan == len(nbuf)  (line 230)
shouldEmit(scan, length, oldscore, nbuf) == length /= oldscore \/ scan = Len(nbuf)

\* bsdc.Copy (line 291)
ctrlCopy(scan, lenb, lastscan, lenf) == (scan - lenb) - (lastscan + lenf)

\* The seek measured from lastpos instead of lastpos + lenf.
ctrlSeekFromLastpos(pos, lenb, lastpos, lenf) == (pos - lenb) - lastpos

\* bsdc.Seek (line 292)
ctrlSeek(pos, lenb, lastpos, lenf) == (pos - lenb) - (lastpos + lenf)

BsdiffControl(add, copy, seek) ==
    [type |-> "control", Add |-> add, Copy |-> copy, Seek |-> seek]

\* The diff data written as a BsdiffExtra message.
BsdiffDiffAsExtra(data) == [type |-> "extra", Data |-> data]

BsdiffDiff(data) == [type |-> "diff", Data |-> data]

BsdiffExtra(data) == [type |-> "extra", Data |-> data]

\* ----------------------------------------------------------------- inputs
Bufs(n) == UNION {[1..k -> Alphabet] : k \in 0..n}

\* Longer inputs that reach the parts of the code short buffers do not: the
\* scenarios of the specification, a match that wins by more than MatchSlack,
\* a backward extension overlapping the forward one, a positive seek, three
\* triples, a group long enough for the partitioning branch of split, and two
\* triples with a wrapping diff byte and an extra byte.
Scenarios ==
    { << <<97, 98, 99, 100, 101, 102, 103, 104>>, <<97, 98, 99, 88, 101, 102, 103, 104>> >>,
      << <<>>, <<104, 101, 108, 108, 111>> >>,
      << <<255, 1, 255, 0, 255, 0, 1, 0, 1>>, <<255, 255, 1, 255, 0, 255, 0, 1, 0, 1>> >>,
      << <<0, 1, 0, 0, 255, 1, 1, 0, 255, 1, 1>>, <<0, 1, 0, 1, 0, 0, 255, 1, 1, 0, 255, 1>> >>,
      << <<98, 99, 98, 100, 97, 99, 98, 99, 100, 100, 100, 99>>,
         <<100, 97, 99, 98, 99, 100, 100, 100, 99>> >>,
      << <<98, 98, 99, 100, 99, 97, 99, 97, 99, 99, 99, 97, 98, 98, 99, 100, 99, 99, 100, 97,
           100, 99, 99, 100>>,
         <<98, 98, 97, 99, 97, 99, 99, 99, 97, 98, 98, 99, 98, 99, 100, 99, 99, 100, 97, 100,
           99, 99, 100>> >>,
      << <<0, 255, 0, 0, 255, 255, 255, 255, 255, 255, 255, 255, 255, 0, 255, 255, 255, 255,
           255, 255>>, <<255>> >>,
      << <<255, 255, 255, 0, 1, 1, 0, 255, 255>>,
         <<1, 255, 255, 1, 255, 255, 255, 0, 1, 1, 0, 255, 255>> >> }

Inputs == (Bufs(MaxLen) \X Bufs(MaxLen)) \cup Scenarios

\* ------------------------------------------------------------------ state
VARIABLES
    pc,          \* where the run stands
    obuf, nbuf,  \* BSDiff: the old and new buffers
    I, V, h,     \* qsufsort: suffix array, rank array, comparison depth
    scan, pos, length, oldscore,
    lastscan, lastpos, lastoffset,
    db, eb, dblen, eblen,
    patch,       \* the messages written to the wire.WriteContext, in order
    emitted,     \* BSDiff: lastscan and lastpos as they stood at each WriteMessage of line 294
    stream, rd,  \* BSPatch: the messages of its wire.ReadContext, and how many were read
    newSize,     \* BSPatch: the declared size of the new file
    ctrlOps, diff, extra,
    diffOffset, extraOffset, oldpos, newpos,
    k,           \* number of control triples applied
    out,         \* BSPatch's local nbuf
    written,     \* the bytes written to the io.Writer new
    err,         \* what BSPatch returned: "none" while it runs
    wire,        \* probe: the messages of the patch file after the two containers
    rctx,        \* probe: how many of them the read context has handed out
    topIndexMap, \* probe: the file indices doDeepAnalysis analyzes (it skips the others)
    reader,      \* probe: the function that reads next
    fileIndex,   \* probe: the loop variable of the reader's loop over source.Files
    reading,     \* probe: the read the reader stands before
    probeErr,    \* probe: what the analysis returned: "none" while it runs
    log          \* probe: the messages decoded so far, in order

diffVars == <<obuf, nbuf, I, V, h, scan, pos, length, oldscore,
              lastscan, lastpos, lastoffset, db, eb, dblen, eblen, patch, emitted>>

patchVars == <<stream, rd, newSize, ctrlOps, diff, extra, diffOffset, extraOffset,
               oldpos, newpos, k, out, written, err>>

probeVars == <<wire, rctx, topIndexMap, reader, fileIndex, reading, probeErr, log>>

vars == <<pc, diffVars, patchVars, probeVars>>

\* No probe runs.
ProbeIdle ==
    /\ wire = <<>> /\ rctx = 0 /\ topIndexMap = {}
    /\ reader = "none" /\ fileIndex = 0 /\ reading = "returned"
    /\ probeErr = "none" /\ log = <<>>

Init ==
    /\ \E in \in Inputs : obuf = in[1] /\ nbuf = in[2]
    /\ pc = "qsufsort"
    /\ I = <<>> /\ V = <<>> /\ h = 0
    /\ scan = 0 /\ pos = 0 /\ length = 0 /\ oldscore = 0
    /\ lastscan = 0 /\ lastpos = 0 /\ lastoffset = 0
    /\ db = <<>> /\ eb = <<>> /\ dblen = 0 /\ eblen = 0
    /\ patch = <<>> /\ emitted = <<>>
    /\ stream = <<>> /\ rd = 0 /\ newSize = 0
    /\ ctrlOps = <<>> /\ diff = <<>> /\ extra = <<>>
    /\ diffOffset = 0 /\ extraOffset = 0 /\ oldpos = 0 /\ newpos = 0
    /\ k = 0 /\ out = <<>> /\ written = <<>> /\ err = "none"
    /\ ProbeIdle

\* qsufsort, lines 99-129 and the loop initialisation h = 1.
QsufsortInit ==
    /\ pc = "qsufsort"
    /\ \E s \in {qsufsortInit(obuf)} : I' = s.I /\ V' = s.V
    /\ h' = 1
    /\ pc' = "doubling"
    /\ UNCHANGED <<obuf, nbuf, scan, pos, length, oldscore, lastscan, lastpos,
                   lastoffset, db, eb, dblen, eblen, patch, emitted, patchVars, probeVars>>

\* One iteration of the doubling loop (lines 131-150).
QsufsortPass ==
    /\ pc = "doubling"
    /\ ~qsufsortSorted(I, Len(obuf))
    /\ \E r \in {qsufsortPass(I, V, Len(obuf), h)} : I' = r.I /\ V' = r.V
    /\ h' = h + h
    /\ UNCHANGED <<pc, obuf, nbuf, scan, pos, length, oldscore, lastscan, lastpos,
                   lastoffset, db, eb, dblen, eblen, patch, emitted, patchVars, probeVars>>

\* Loop exit, the inversion of lines 152-155, and BSDiff's lines 199-207.
QsufsortReturn ==
    /\ pc = "doubling"
    /\ qsufsortSorted(I, Len(obuf))
    /\ I' = qsufsortInvert(I, V, 0)
    /\ db' = Zeros(Len(nbuf))
    /\ eb' = Zeros(Len(nbuf))
    /\ pc' = "scan"
    /\ UNCHANGED <<obuf, nbuf, V, h, scan, pos, length, oldscore, lastscan, lastpos,
                   lastoffset, dblen, eblen, patch, emitted, patchVars, probeVars>>

\* One pass of the outer loop up to the test of line 230 (lines 208-230).
Scan ==
    /\ pc = "scan"
    /\ scan < Len(nbuf)
    /\ \E r \in {scanLoop(I, obuf, nbuf, lastoffset, scan + length, scan + length,
                          0, pos, length)} :
          /\ scan' = r.scan
          /\ pos' = r.pos
          /\ length' = r.length
          /\ oldscore' = r.oldscore
          /\ pc' = IF shouldEmit(r.scan, r.length, r.oldscore, nbuf) THEN "emit" ELSE "scan"
    /\ UNCHANGED <<obuf, nbuf, I, V, h, lastscan, lastpos, lastoffset,
                   db, eb, dblen, eblen, patch, emitted, patchVars, probeVars>>

\* The body of the if of line 230: one control triple (lines 231-301).
Emit ==
    /\ pc = "emit"
    /\ \E e \in {extents(obuf, nbuf, lastscan, lastpos, scan, pos)} :
       LET lenf == e[1]
           lenb == e[2]
           cnt  == ctrlCopy(scan, lenb, lastscan, lenf)
       IN /\ db' = writeDiff(db, dblen, obuf, nbuf, lastscan, lastpos, lenf)
          /\ eb' = writeExtra(eb, eblen, nbuf, lastscan + lenf, cnt)
          /\ dblen' = dblen + lenf
          /\ eblen' = eblen + cnt
          /\ patch' = Append(patch, BsdiffControl(lenf, cnt, ctrlSeek(pos, lenb, lastpos, lenf)))
          /\ lastscan' = scan - lenb
          /\ lastpos' = pos - lenb
          /\ lastoffset' = pos - scan
          /\ emitted' = Append(emitted, [lastscan |-> lastscan, lastpos |-> lastpos])
    /\ pc' = "scan"
    /\ UNCHANGED <<obuf, nbuf, I, V, h, scan, pos, length, oldscore, patchVars, probeVars>>

\* Loop exit and the sentinel control message (lines 305-311).
WriteSentinel ==
    /\ pc = "scan"
    /\ ~(scan < Len(nbuf))
    /\ patch' = Append(patch, BsdiffControl(-1, 0, 0))
    /\ pc' = "diffdata"
    /\ UNCHANGED <<obuf, nbuf, I, V, h, scan, pos, length, oldscore, lastscan, lastpos,
                   lastoffset, db, eb, dblen, eblen, emitted, patchVars, probeVars>>

\* Lines 313-321.
WriteDiffData ==
    /\ pc = "diffdata"
    /\ patch' = Append(patch, BsdiffDiff(SubSeq(db, 1, dblen)))
    /\ pc' = "extradata"
    /\ UNCHANGED <<obuf, nbuf, I, V, h, scan, pos, length, oldscore, lastscan, lastpos,
                   lastoffset, db, eb, dblen, eblen, emitted, patchVars, probeVars>>

\* Lines 323-333.
WriteExtraData ==
    /\ pc = "extradata"
    /\ patch' = Append(patch, BsdiffExtra(SubSeq(eb, 1, eblen)))
    /\ pc' = "diffed"
    /\ UNCHANGED <<obuf, nbuf, I, V, h, scan, pos, length, oldscore, lastscan, lastpos,
                   lastoffset, db, eb, dblen, eblen, emitted, patchVars, probeVars>>

\* ---------------------------------------------------------------- BSPatch
\* Declared sizes tried: 0 .. len(new) + MaxPad.
MaxPad == 1

\* copy(dst[at:at+n], src[off:off+n]) for slices whose bounds are valid
copyInto(dst, at, src, off, n) ==
    [j \in DOMAIN dst |->
        IF j - 1 >= at /\ j - 1 < at + n THEN At(src, off + (j - 1 - at)) ELSE dst[j]]

\* for i := int64(0); i < ctrl.Add; i++ { nbuf[newpos+i] += obuf[oldpos+i] }
addOld(dst, at, old, from, n) ==
    [j \in DOMAIN dst |->
        IF j - 1 >= at /\ j - 1 < at + n
        THEN ByteAdd(dst[j], At(old, from + (j - 1 - at))) ELSE dst[j]]

\* A slice expression s[lo:hi] panics unless 0 <= lo <= hi <= cap(s); the data
\* slices of the decoded messages are taken to have no spare capacity.
sliceOk(s, lo, hi) == 0 <= lo /\ lo <= hi /\ hi <= Len(s)

\* The first half of the loop body of lines 392-423 (lines 393-409), on the
\* locals st: the sanity check, the diff bytes, the old bytes, the cursors.
applyAdd(ctrl, st) ==
    IF st.newpos + ctrl.Add > st.newSize THEN [st EXCEPT !.err = "ErrCorrupt"]
    ELSE IF ~sliceOk(st.out, st.newpos, st.newpos + ctrl.Add)
            \/ ~sliceOk(st.diff, st.diffOffset, st.diffOffset + ctrl.Add)
            \/ \E i \in 0..(ctrl.Add - 1) :
                   st.oldpos + i < 0 \/ st.oldpos + i >= Len(st.obuf)
    THEN [st EXCEPT !.err = "panic"]
    ELSE [st EXCEPT !.out = addOld(copyInto(st.out, st.newpos, st.diff, st.diffOffset,
                                            ctrl.Add),
                                   st.newpos, st.obuf, st.oldpos, ctrl.Add),
                    !.newpos = st.newpos + ctrl.Add,
                    !.oldpos = st.oldpos + ctrl.Add,
                    !.diffOffset = st.diffOffset + ctrl.Add]

\* The second half without the sanity check of lines 411-414.
applyCopyUnchecked(ctrl, st) ==
    IF st.err /= "none" THEN st
    ELSE IF ~sliceOk(st.out, st.newpos, st.newpos + ctrl.Copy)
            \/ ~sliceOk(st.extra, st.extraOffset, st.extraOffset + ctrl.Copy)
    THEN [st EXCEPT !.err = "panic"]
    ELSE [st EXCEPT !.out = copyInto(st.out, st.newpos, st.extra, st.extraOffset, ctrl.Copy),
                    !.extraOffset = st.extraOffset + ctrl.Copy,
                    !.newpos = st.newpos + ctrl.Copy,
                    !.oldpos = st.oldpos + ctrl.Seek]

\* The second half leaving the old cursor where the add left it.
applyCopyNoSeek(ctrl, st) ==
    IF st.err /= "none" THEN st
    ELSE IF st.newpos + ctrl.Copy > st.newSize THEN [st EXCEPT !.err = "ErrCorrupt"]
    ELSE IF ~sliceOk(st.out, st.newpos, st.newpos + ctrl.Copy)
            \/ ~sliceOk(st.extra, st.extraOffset, st.extraOffset + ctrl.Copy)
    THEN [st EXCEPT !.err = "panic"]
    ELSE [st EXCEPT !.out = copyInto(st.out, st.newpos, st.extra, st.extraOffset, ctrl.Copy),
                    !.extraOffset = st.extraOffset + ctrl.Copy,
                    !.newpos = st.newpos + ctrl.Copy]

\* The second half (lines 411-422), skipped when the first returned an error.
applyCopy(ctrl, st) ==
    IF st.err /= "none" THEN st
    ELSE IF st.newpos + ctrl.Copy > st.newSize THEN [st EXCEPT !.err = "ErrCorrupt"]
    ELSE IF ~sliceOk(st.out, st.newpos, st.newpos + ctrl.Copy)
            \/ ~sliceOk(st.extra, st.extraOffset, st.extraOffset + ctrl.Copy)
    THEN [st EXCEPT !.err = "panic"]
    ELSE [st EXCEPT !.out = copyInto(st.out, st.newpos, st.extra, st.extraOffset, ctrl.Copy),
                    !.extraOffset = st.extraOffset + ctrl.Copy,
                    !.newpos = st.newpos + ctrl.Copy,
                    !.oldpos = st.oldpos + ctrl.Seek]

\* The body of the loop of lines 392-423 for one control triple: the error it
\* returns ("none" to go on) and the locals after it.
applyControl(ctrl, st) == applyCopy(ctrl, applyAdd(ctrl, st))

\* patch.ReadMessage: the next message, or an error at the end of the stream.
CanRead == rd < Len(stream)

\* BSPatch is called on the old buffer with a read context holding the first
\* t messages BSDiff wrote, and with a declared size.
BSPatchCall ==
    /\ pc = "diffed"
    /\ \E t \in 0..Len(patch) : stream' = SubSeq(patch, 1, t)
    /\ \E n \in 0..(Len(nbuf) + MaxPad) : newSize' = n
    /\ pc' = "control"
    /\ UNCHANGED <<probeVars, diffVars, rd, ctrlOps, diff, extra, diffOffset, extraOffset,
                   oldpos, newpos, k, out, written, err>>

\* The read loop returning ErrCorrupt for a failed read.
ReadControlCorrupt ==
    /\ pc = "control"
    /\ IF ~CanRead
       THEN /\ err' = "ErrCorrupt" /\ pc' = "returned"
            /\ UNCHANGED <<rd, ctrlOps>>
       ELSE /\ rd' = rd + 1
            /\ \E ctrlOp \in {At(stream, rd)} :
                  IF ctrlOp.Add = -1
                  THEN pc' = "diffmsg" /\ UNCHANGED ctrlOps
                  ELSE /\ ctrlOps' = Append(ctrlOps, [Add |-> ctrlOp.Add, Seek |-> ctrlOp.Seek,
                                                      Copy |-> ctrlOp.Copy])
                       /\ UNCHANGED pc
            /\ UNCHANGED err
    /\ UNCHANGED <<probeVars, diffVars, stream, newSize, diff, extra, diffOffset, extraOffset,
                   oldpos, newpos, k, out, written>>

\* One iteration of the loop of lines 347-363.
ReadControl ==
    /\ pc = "control"
    /\ IF ~CanRead
       THEN /\ err' = "ReadError" /\ pc' = "returned"
            /\ UNCHANGED <<rd, ctrlOps>>
       ELSE /\ rd' = rd + 1
            /\ \E ctrlOp \in {At(stream, rd)} :
                  IF ctrlOp.Add = -1
                  THEN pc' = "diffmsg" /\ UNCHANGED ctrlOps
                  ELSE /\ ctrlOps' = Append(ctrlOps, [Add |-> ctrlOp.Add, Seek |-> ctrlOp.Seek,
                                                      Copy |-> ctrlOp.Copy])
                       /\ UNCHANGED pc
            /\ UNCHANGED err
    /\ UNCHANGED <<probeVars, diffVars, stream, newSize, diff, extra, diffOffset, extraOffset,
                   oldpos, newpos, k, out, written>>

\* Lines 365-372.
ReadDiff ==
    /\ pc = "diffmsg"
    /\ IF ~CanRead
       THEN /\ err' = "ReadError" /\ pc' = "returned"
            /\ UNCHANGED <<rd, diff>>
       ELSE /\ rd' = rd + 1
            /\ diff' = At(stream, rd).Data
            /\ pc' = "extramsg"
            /\ UNCHANGED err
    /\ UNCHANGED <<probeVars, diffVars, stream, newSize, ctrlOps, extra, diffOffset, extraOffset,
                   oldpos, newpos, k, out, written>>

\* Lines 374-390.
ReadExtra ==
    /\ pc = "extramsg"
    /\ IF ~CanRead
       THEN /\ err' = "ReadError" /\ pc' = "returned"
            /\ UNCHANGED <<rd, extra, out>>
       ELSE /\ rd' = rd + 1
            /\ extra' = At(stream, rd).Data
            /\ out' = Zeros(newSize)
            /\ pc' = "apply"
            /\ UNCHANGED err
    /\ UNCHANGED <<probeVars, diffVars, stream, newSize, ctrlOps, diff, diffOffset, extraOffset,
                   oldpos, newpos, k, written>>

\* One iteration of the loop of lines 392-423.
ApplyControl ==
    /\ pc = "apply"
    /\ k < Len(ctrlOps)
    /\ \E r \in {applyControl(At(ctrlOps, k),
                    [obuf |-> obuf, newSize |-> newSize, diff |-> diff, extra |-> extra,
                     out |-> out, newpos |-> newpos, oldpos |-> oldpos,
                     diffOffset |-> diffOffset, extraOffset |-> extraOffset,
                     err |-> "none"])} :
          /\ out' = r.out
          /\ newpos' = r.newpos
          /\ oldpos' = r.oldpos
          /\ diffOffset' = r.diffOffset
          /\ extraOffset' = r.extraOffset
          /\ err' = r.err
          /\ pc' = IF r.err = "none" THEN "apply" ELSE "returned"
    /\ k' = k + 1
    /\ UNCHANGED <<probeVars, diffVars, stream, rd, newSize, ctrlOps, diff, extra, written>>

\* Lines 425-434: the output is written once every triple has been applied.
WriteNew ==
    /\ pc = "apply"
    /\ k = Len(ctrlOps)
    /\ written' = out
    /\ err' = "nil"
    /\ pc' = "returned"
    /\ UNCHANGED <<probeVars, diffVars, stream, rd, newSize, ctrlOps, diff, extra, diffOffset,
                   extraOffset, oldpos, newpos, k, out>>

Next ==
    \/ QsufsortInit
    \/ QsufsortPass
    \/ QsufsortReturn
    \/ Scan
    \/ Emit
    \/ WriteSentinel
    \/ WriteDiffData
    \/ WriteExtraData
    \/ BSPatchCall
    \/ ReadControl
    \/ ReadDiff
    \/ ReadExtra
    \/ ApplyControl
    \/ WriteNew

Spec == Init /\ [][Next]_vars

\* ------------------------------------------------------------------ probe
\* Longest run of ops (RSYNC) or of non-final controls (BSDIFF) in a series.
MaxOps == 1

\* for fileIndex := range source.Files: the container lists two files.
FileIndices == {0, 1}

\* pwr.SyncHeader: the series types a reader knows, and one it does not.
HeaderTypes == {"RSYNC", "BSDIFF", "OTHER"}

OpTypes == {"BLOCK_RANGE", "DATA", "HEY_YOU_DID_IT"}

SyncHeader(type, index) == [kind |-> "SyncHeader", Type |-> type, FileIndex |-> index]

SyncOp(type) == [kind |-> "SyncOp", Type |-> type]

BsdiffHeader == [kind |-> "BsdiffHeader"]

Control(eof) == [kind |-> "Control", Eof |-> eof]

\* Every value a message of the given kind can decode to.
Decodable(kind) ==
    CASE kind = "SyncHeader"   -> {SyncHeader(t, i) : t \in HeaderTypes, i \in FileIndices}
      [] kind = "SyncOp"       -> {SyncOp(t) : t \in OpTypes}
      [] kind = "BsdiffHeader" -> {BsdiffHeader}
      [] kind = "Control"      -> {Control(e) : e \in BOOLEAN}

Messages ==
    Decodable("SyncHeader") \cup Decodable("SyncOp") \cup Decodable("BsdiffHeader")
        \cup Decodable("Control")

\* rctx.ReadMessage failed.
ReadFailed == [kind |-> "error"]

\* rctx.ReadMessage(msg) with n messages of w already read: the outcomes.  It
\* fails at the end of the stream; a record written as another kind of message
\* either fails to decode or decodes to some value of the kind asked for.
readMessage(w, n, kind) ==
    IF n >= Len(w) THEN {ReadFailed}
    ELSE IF w[n + 1].kind = kind THEN {w[n + 1]}
    ELSE Decodable(kind) \cup {ReadFailed}

SeqsUpTo(S, n) == UNION {[1..m -> S] : m \in 0..n}

\* The series a writer produces for file index: the header, the ops, the
\* terminal HEY_YOU_DID_IT.
RsyncSeries(index) ==
    { <<SyncHeader("RSYNC", index)>> \o ops \o <<SyncOp("HEY_YOU_DID_IT")>> :
          ops \in SeqsUpTo({SyncOp("BLOCK_RANGE"), SyncOp("DATA")}, MaxOps) }

BsdiffSeries(index) ==
    { <<SyncHeader("BSDIFF", index), BsdiffHeader>> \o cs
          \o <<Control(TRUE), SyncOp("HEY_YOU_DID_IT")>> :
          cs \in SeqsUpTo({Control(FALSE)}, MaxOps) }

\* A series of a type this reader does not know: its header alone.
OtherSeries(index) == { <<SyncHeader("OTHER", index)>> }

\* One series per file for the first n files, in container order.
RECURSIVE WellFormedUpTo(_)
WellFormedUpTo(n) ==
    IF n = 0 THEN {<<>>}
    ELSE {w \o s : w \in WellFormedUpTo(n - 1),
                   s \in RsyncSeries(n - 1) \cup BsdiffSeries(n - 1)}

RECURSIVE FramedUpTo(_)
FramedUpTo(n) ==
    IF n = 0 THEN {<<>>}
    ELSE {w \o s : w \in FramedUpTo(n - 1),
                   s \in RsyncSeries(n - 1) \cup BsdiffSeries(n - 1) \cup OtherSeries(n - 1)}

WellFormedWires == WellFormedUpTo(Cardinality(FileIndices))

\* The streams analyzed: the framed ones, those with one message replaced by
\* any other, and those cut short.
Wires ==
    FramedUpTo(Cardinality(FileIndices))
        \cup UNION {{[w EXCEPT ![p] = m] : p \in DOMAIN w, m \in Messages} :
                        w \in FramedUpTo(Cardinality(FileIndices))}
        \cup UNION {{SubSeq(w, 1, n) : n \in 0..(Len(w) - 1)} :
                        w \in FramedUpTo(Cardinality(FileIndices))}

\* if rop.Type == pwr.SyncOp_HEY_YOU_DID_IT { readingOps = false } taken for
\* every op that is not a block range.
skipRsyncDoneOnData(rop) == rop.Type /= "BLOCK_RANGE"

\* skipSeries, lines 988-991.
skipRsyncDone(rop) == rop.Type = "HEY_YOU_DID_IT"

\* case pwr.SyncOp_HEY_YOU_DID_IT: readingOps = false (lines 601-602, 856-857)
rsyncDone(rop) == rop.Type = "HEY_YOU_DID_IT"

\* if rop.Type != pwr.SyncOp_HEY_YOU_DID_IT (lines 641, 960, 1022)
trailerMissing(rop) == rop.Type /= "HEY_YOU_DID_IT"

\* return nil, err: the reader returns an error to its caller Do.
ProbeFail ==
    /\ probeErr' = "error"
    /\ reading' = "returned"
    /\ UNCHANGED <<fileIndex, reader>>

\* The body of the loop over source.Files is done: on to the next file.
ProbeNextFile(loop) ==
    /\ fileIndex' = fileIndex + 1
    /\ reading' = "header"
    /\ reader' = loop
    /\ UNCHANGED probeErr

\* The reader goes on to its next read.
ProbeGoOn(fn, next) ==
    /\ reader' = fn
    /\ reading' = next
    /\ UNCHANGED <<fileIndex, probeErr>>

\* The message read is consumed and recorded.
ProbeConsume(m) ==
    /\ rctx' = rctx + 1
    /\ log' = Append(log, m)

\* Do calls doPrimaryAnalysis, or doDeepAnalysis with some top file indices,
\* on a patch file whose series are those of wire.
InitProbe ==
    /\ pc = "idle"
    /\ obuf = <<>> /\ nbuf = <<>>
    /\ I = <<>> /\ V = <<>> /\ h = 0
    /\ scan = 0 /\ pos = 0 /\ length = 0 /\ oldscore = 0
    /\ lastscan = 0 /\ lastpos = 0 /\ lastoffset = 0
    /\ db = <<>> /\ eb = <<>> /\ dblen = 0 /\ eblen = 0
    /\ patch = <<>> /\ emitted = <<>>
    /\ stream = <<>> /\ rd = 0 /\ newSize = 0
    /\ ctrlOps = <<>> /\ diff = <<>> /\ extra = <<>>
    /\ diffOffset = 0 /\ extraOffset = 0 /\ oldpos = 0 /\ newpos = 0
    /\ k = 0 /\ out = <<>> /\ written = <<>> /\ err = "none"
    /\ wire \in Wires
    /\ rctx = 0
    /\ \/ reader = "doPrimaryAnalysis" /\ topIndexMap = {}
       \/ reader = "doDeepAnalysis" /\ topIndexMap \in SUBSET FileIndices
    /\ fileIndex = 0
    /\ reading = "header"
    /\ probeErr = "none"
    /\ log = <<>>

\* doPrimaryAnalysis, lines 554-571 and, for a type the switch has no case
\* for, lines 646-649.
PrimaryHeader ==
    /\ reader = "doPrimaryAnalysis" /\ reading = "header"
    /\ fileIndex \in FileIndices
    /\ \E sh \in readMessage(wire, rctx, "SyncHeader") :
          IF sh = ReadFailed THEN ProbeFail /\ UNCHANGED <<rctx, log>>
          ELSE /\ ProbeConsume(sh)
               /\ IF sh.FileIndex /= fileIndex THEN ProbeFail
                  ELSE IF sh.Type = "RSYNC" THEN ProbeGoOn("doPrimaryAnalysis", "rsync")
                  ELSE IF sh.Type = "BSDIFF"
                       THEN ProbeGoOn("doPrimaryAnalysis", "bsdiffHeader")
                  ELSE ProbeNextFile("doPrimaryAnalysis")
    /\ UNCHANGED <<pc, diffVars, patchVars, wire, topIndexMap>>

\* doPrimaryAnalysis, lines 578-604.
PrimaryRsyncOp ==
    /\ reader = "doPrimaryAnalysis" /\ reading = "rsync"
    /\ \E rop \in readMessage(wire, rctx, "SyncOp") :
          IF rop = ReadFailed THEN ProbeFail /\ UNCHANGED <<rctx, log>>
          ELSE /\ ProbeConsume(rop)
               /\ IF rsyncDone(rop) THEN ProbeNextFile("doPrimaryAnalysis")
                  ELSE ProbeGoOn("doPrimaryAnalysis", "rsync")
    /\ UNCHANGED <<pc, diffVars, patchVars, wire, topIndexMap>>

\* doPrimaryAnalysis, lines 611-615.
PrimaryBsdiffHeader ==
    /\ reader = "doPrimaryAnalysis" /\ reading = "bsdiffHeader"
    /\ \E bh \in readMessage(wire, rctx, "BsdiffHeader") :
          IF bh = ReadFailed THEN ProbeFail /\ UNCHANGED <<rctx, log>>
          ELSE ProbeConsume(bh) /\ ProbeGoOn("doPrimaryAnalysis", "bsdiff")
    /\ UNCHANGED <<pc, diffVars, patchVars, wire, topIndexMap>>

\* doPrimaryAnalysis, lines 617-634.
PrimaryControl ==
    /\ reader = "doPrimaryAnalysis" /\ reading = "bsdiff"
    /\ \E bc \in readMessage(wire, rctx, "Control") :
          IF bc = ReadFailed THEN ProbeFail /\ UNCHANGED <<rctx, log>>
          ELSE /\ ProbeConsume(bc)
               /\ IF bc.Eof THEN ProbeGoOn("doPrimaryAnalysis", "trailer")
                  ELSE ProbeGoOn("doPrimaryAnalysis", "bsdiff")
    /\ UNCHANGED <<pc, diffVars, patchVars, wire, topIndexMap>>

\* doPrimaryAnalysis, lines 636-649.
PrimaryTrailer ==
    /\ reader = "doPrimaryAnalysis" /\ reading = "trailer"
    /\ \E rop \in readMessage(wire, rctx, "SyncOp") :
          IF rop = ReadFailed THEN ProbeFail /\ UNCHANGED <<rctx, log>>
          ELSE /\ ProbeConsume(rop)
               /\ IF trailerMissing(rop) THEN ProbeFail
                  ELSE ProbeNextFile("doPrimaryAnalysis")
    /\ UNCHANGED <<pc, diffVars, patchVars, wire, topIndexMap>>

\* doPrimaryAnalysis, lines 651-718: the loop is over, the statistics are
\* printed and the function returns no error.
PrimaryReturn ==
    /\ reader = "doPrimaryAnalysis" /\ reading = "header"
    /\ fileIndex \notin FileIndices
    /\ probeErr' = "nil"
    /\ reading' = "returned"
    /\ UNCHANGED <<pc, diffVars, patchVars, wire, rctx, topIndexMap, reader, fileIndex, log>>

\* doDeepAnalysis, lines 791-810, with the switch of analyzeSeries (lines
\* 821-828) or of skipSeries (lines 976, 994, 1027-1029).  The error that
\* analyzeSeries returns is assigned to err and not tested: the loop goes on.
DeepHeader ==
    /\ reader = "doDeepAnalysis" /\ reading = "header"
    /\ fileIndex \in FileIndices
    /\ \E sh \in readMessage(wire, rctx, "SyncHeader") :
          IF sh = ReadFailed THEN ProbeFail /\ UNCHANGED <<rctx, log>>
          ELSE /\ ProbeConsume(sh)
               /\ IF sh.FileIndex /= fileIndex THEN ProbeFail
                  ELSE IF sh.FileIndex \in topIndexMap
                  THEN IF sh.Type = "RSYNC" THEN ProbeGoOn("analyzeSeries", "rsync")
                       ELSE IF sh.Type = "BSDIFF"
                            THEN ProbeGoOn("analyzeSeries", "bsdiffHeader")
                       ELSE ProbeNextFile("doDeepAnalysis")
                  ELSE IF sh.Type = "RSYNC" THEN ProbeGoOn("skipSeries", "rsync")
                       ELSE IF sh.Type = "BSDIFF"
                            THEN ProbeGoOn("skipSeries", "bsdiffHeader")
                       ELSE ProbeFail
    /\ UNCHANGED <<pc, diffVars, patchVars, wire, topIndexMap>>

\* doDeepAnalysis, line 813.
DeepReturn ==
    /\ reader = "doDeepAnalysis" /\ reading = "header"
    /\ fileIndex \notin FileIndices
    /\ probeErr' = "nil"
    /\ reading' = "returned"
    /\ UNCHANGED <<pc, diffVars, patchVars, wire, rctx, topIndexMap, reader, fileIndex, log>>

\* analyzeRsync, lines 842-871, back in doDeepAnalysis at its return; the
\* target container is taken to hold every file index the ops name.
AnalyzeRsyncOp ==
    /\ reader = "analyzeSeries" /\ reading = "rsync"
    /\ \E rop \in readMessage(wire, rctx, "SyncOp") :
          IF rop = ReadFailed
          THEN ProbeNextFile("doDeepAnalysis") /\ UNCHANGED <<rctx, log>>
          ELSE /\ ProbeConsume(rop)
               /\ IF rsyncDone(rop) THEN ProbeNextFile("doDeepAnalysis")
                  ELSE ProbeGoOn("analyzeSeries", "rsync")
    /\ UNCHANGED <<pc, diffVars, patchVars, wire, topIndexMap>>

\* analyzeBsdiff, lines 881-891; the target container is taken to hold
\* bh.TargetIndex.
AnalyzeBsdiffHeader ==
    /\ reader = "analyzeSeries" /\ reading = "bsdiffHeader"
    /\ \E bh \in readMessage(wire, rctx, "BsdiffHeader") :
          IF bh = ReadFailed
          THEN ProbeNextFile("doDeepAnalysis") /\ UNCHANGED <<rctx, log>>
          ELSE ProbeConsume(bh) /\ ProbeGoOn("analyzeSeries", "bsdiff")
    /\ UNCHANGED <<pc, diffVars, patchVars, wire, topIndexMap>>

\* analyzeBsdiff, lines 912-951.
AnalyzeControl ==
    /\ reader = "analyzeSeries" /\ reading = "bsdiff"
    /\ \E bc \in readMessage(wire, rctx, "Control") :
          IF bc = ReadFailed
          THEN ProbeNextFile("doDeepAnalysis") /\ UNCHANGED <<rctx, log>>
          ELSE /\ ProbeConsume(bc)
               /\ IF bc.Eof THEN ProbeGoOn("analyzeSeries", "trailer")
                  ELSE ProbeGoOn("analyzeSeries", "bsdiff")
    /\ UNCHANGED <<pc, diffVars, patchVars, wire, topIndexMap>>

\* analyzeBsdiff, lines 953-968, back in doDeepAnalysis at its return.
AnalyzeTrailer ==
    /\ reader = "analyzeSeries" /\ reading = "trailer"
    /\ \E rop \in readMessage(wire, rctx, "SyncOp") :
          IF rop = ReadFailed
          THEN ProbeNextFile("doDeepAnalysis") /\ UNCHANGED <<rctx, log>>
          ELSE ProbeConsume(rop) /\ ProbeNextFile("doDeepAnalysis")
    /\ UNCHANGED <<pc, diffVars, patchVars, wire, topIndexMap>>

\* skipSeries, lines 979-992, back in doDeepAnalysis at its return.
SkipRsyncOp ==
    /\ reader = "skipSeries" /\ reading = "rsync"
    /\ \E rop \in readMessage(wire, rctx, "SyncOp") :
          IF rop = ReadFailed THEN ProbeFail /\ UNCHANGED <<rctx, log>>
          ELSE /\ ProbeConsume(rop)
               /\ IF skipRsyncDone(rop) THEN ProbeNextFile("doDeepAnalysis")
                  ELSE ProbeGoOn("skipSeries", "rsync")
    /\ UNCHANGED <<pc, diffVars, patchVars, wire, topIndexMap>>

\* skipSeries, lines 996-1000.
SkipBsdiffHeader ==
    /\ reader = "skipSeries" /\ reading = "bsdiffHeader"
    /\ \E bh \in readMessage(wire, rctx, "BsdiffHeader") :
          IF bh = ReadFailed THEN ProbeFail /\ UNCHANGED <<rctx, log>>
          ELSE ProbeConsume(bh) /\ ProbeGoOn("skipSeries", "bsdiff")
    /\ UNCHANGED <<pc, diffVars, patchVars, wire, topIndexMap>>

\* skipSeries, lines 1002-1014.
SkipControl ==
    /\ reader = "skipSeries" /\ reading = "bsdiff"
    /\ \E bc \in readMessage(wire, rctx, "Control") :
          IF bc = ReadFailed THEN ProbeFail /\ UNCHANGED <<rctx, log>>
          ELSE /\ ProbeConsume(bc)
               /\ IF bc.Eof THEN ProbeGoOn("skipSeries", "trailer")
                  ELSE ProbeGoOn("skipSeries", "bsdiff")
    /\ UNCHANGED <<pc, diffVars, patchVars, wire, topIndexMap>>

\* skipSeries, lines 1016-1031, back in doDeepAnalysis at its return.
SkipTrailer ==
    /\ reader = "skipSeries" /\ reading = "trailer"
    /\ \E rop \in readMessage(wire, rctx, "SyncOp") :
          IF rop = ReadFailed THEN ProbeFail /\ UNCHANGED <<rctx, log>>
          ELSE /\ ProbeConsume(rop)
               /\ IF trailerMissing(rop) THEN ProbeFail
                  ELSE ProbeNextFile("doDeepAnalysis")
    /\ UNCHANGED <<pc, diffVars, patchVars, wire, topIndexMap>>

NextProbe ==
    \/ PrimaryHeader
    \/ PrimaryRsyncOp
    \/ PrimaryBsdiffHeader
    \/ PrimaryControl
    \/ PrimaryTrailer
    \/ PrimaryReturn
    \/ DeepHeader
    \/ DeepReturn
    \/ AnalyzeRsyncOp
    \/ AnalyzeBsdiffHeader
    \/ AnalyzeControl
    \/ AnalyzeTrailer
    \/ SkipRsyncOp
    \/ SkipBsdiffHeader
    \/ SkipControl
    \/ SkipTrailer

SpecProbe == InitProbe /\ [][NextProbe]_vars

\* ------------------------------------------------------ arbitrary patches
\* BSPatch on a patch that no BSDiff need have written.
\* Longest old buffer, diff block and extra block, and largest declared size.
MaxData == 2

\* Values tried for the add, copy and seek fields of a control triple; an add
\* of -1 is the sentinel.
AddFields == {-2, 0, 1, 2}

CopyFields == {-1, 0, 1}

SeekFields == {-1, 0, 1}

\* Blocks of up to n bytes; which bytes they hold decides no bound.
Blocks(n) == {[i \in 1..m |-> 255] : m \in 0..n}

\* The patches: up to two control triples, the sentinel, a diff block and an
\* extra block.
Patches ==
    { cs \o <<BsdiffControl(-1, 0, 0), BsdiffDiff(d), BsdiffExtra(e)>> :
          cs \in SeqsUpTo({BsdiffControl(a, c, sk) :
                               a \in AddFields, c \in CopyFields, sk \in SeekFields}, 2),
          d \in Blocks(MaxData), e \in Blocks(MaxData) }

\* BSPatch is called on some old buffer with some patch and declared size.
InitPatch ==
    /\ pc = "control"
    /\ obuf \in Blocks(MaxData) /\ nbuf = <<>>
    /\ I = <<>> /\ V = <<>> /\ h = 0
    /\ scan = 0 /\ pos = 0 /\ length = 0 /\ oldscore = 0
    /\ lastscan = 0 /\ lastpos = 0 /\ lastoffset = 0
    /\ db = <<>> /\ eb = <<>> /\ dblen = 0 /\ eblen = 0
    /\ patch = <<>> /\ emitted = <<>>
    /\ stream \in Patches
    /\ rd = 0
    /\ newSize \in 0..MaxData
    /\ ctrlOps = <<>> /\ diff = <<>> /\ extra = <<>>
    /\ diffOffset = 0 /\ extraOffset = 0 /\ oldpos = 0 /\ newpos = 0
    /\ k = 0 /\ out = <<>> /\ written = <<>> /\ err = "none"
    /\ ProbeIdle

NextPatch ==
    \/ ReadControl
    \/ ReadDiff
    \/ ReadExtra
    \/ ApplyControl
    \/ WriteNew

SpecPatch == InitPatch /\ [][NextPatch]_vars

\* ------------------------------------------------------------- properties
\* BSDiff has returned: patch holds everything it wrote.
DiffDone == pc \in {"diffed", "control", "diffmsg", "extramsg", "apply", "returned"}

\* BSPatch has returned after reading the whole patch BSDiff wrote.
PatchedWhole == pc = "returned" /\ stream = patch

\* The control triples BSDiff wrote before the sentinel.
Controls == SubSeq(patch, 1, Len(patch) - 3)

\* Sum of the add and copy fields of the first j triples of ops.
RECURSIVE Covered(_, _)
Covered(ops, j) ==
    IF j = 0 THEN 0 ELSE Covered(ops, j - 1) + ops[j].Add + ops[j].Copy

\* The stream handed to BSPatch holds no sentinel control message.
NoSentinel == \A i \in DOMAIN stream : stream[i].type = "control" /\ stream[i].Add /= -1

Abcdefgh == <<97, 98, 99, 100, 101, 102, 103, 104>>

AbcXefgh == <<97, 98, 99, 88, 101, 102, 103, 104>>

Hello == <<104, 101, 108, 108, 111>>

\* C1: BSPatch applied to old with everything BSDiff(old, new) wrote and the
\* declared size len(new) returns no error and writes exactly new.
RoundTrip ==
    (PatchedWhole /\ newSize = Len(nbuf)) => (err = "nil" /\ written = nbuf)

RoundTripWitness ==
    /\ PatchedWhole /\ newSize = Len(nbuf)
    /\ err = "nil" /\ written = nbuf
    /\ Len(ctrlOps) >= 2
    /\ \E i \in DOMAIN diff : diff[i] /= 0
    /\ Len(extra) > 0

\* C2: qsufsort returns an array of length n+1 that is a permutation of 0..n
\* whose suffixes are in strictly increasing order, the empty suffix first.
SuffixArrayValid ==
    pc = "scan" =>
        /\ Len(I) = Len(obuf) + 1
        /\ {I[j] : j \in DOMAIN I} = 0..Len(obuf)
        /\ At(I, 0) = Len(obuf)
        /\ \A j \in 0..(Len(obuf) - 1) :
               BytesLess(From(obuf, At(I, j)), From(obuf, At(I, j + 1)))

SuffixArrayWitness ==
    /\ pc = "scan"
    /\ Len(obuf) >= ShortSplit
    /\ h > 2
    /\ {I[j] : j \in DOMAIN I} = 0..Len(obuf)

\* C3 as stated: for old = "abcdefgh", new = "abcXefgh" BSDiff writes the one
\* triple add=8, copy=0, seek=0, the sentinel, eight diff bytes that are zero
\* but for ('X' - 'd') mod 256 at position 3, and no extra bytes.
ScenarioSeekZero ==
    (DiffDone /\ obuf = Abcdefgh /\ nbuf = AbcXefgh) =>
        patch = << BsdiffControl(8, 0, 0), BsdiffControl(-1, 0, 0),
                   BsdiffDiff(<<0, 0, 0, 244, 0, 0, 0, 0>>), BsdiffExtra(<<>>) >>

\* C3 amended: the one triple is add=8, copy=0, seek=-4 (the last match found
\* was at old offset 4, and the old cursor stands at 8 after the add).
ScenarioSeekBack ==
    (DiffDone /\ obuf = Abcdefgh /\ nbuf = AbcXefgh) =>
        patch = << BsdiffControl(8, 0, -4), BsdiffControl(-1, 0, 0),
                   BsdiffDiff(<<0, 0, 0, 244, 0, 0, 0, 0>>), BsdiffExtra(<<>>) >>

ScenarioSeekWitness == pc = "diffed" /\ obuf = Abcdefgh /\ nbuf = AbcXefgh

\* C4: for empty old and new = "hello" BSDiff writes the one triple add=0,
\* copy=5, seek=0, the sentinel, an empty diff block and the extra block "hello".
ScenarioHello ==
    (DiffDone /\ obuf = <<>> /\ nbuf = Hello) =>
        patch = << BsdiffControl(0, 5, 0), BsdiffControl(-1, 0, 0),
                   BsdiffDiff(<<>>), BsdiffExtra(Hello) >>

ScenarioHelloWitness == pc = "diffed" /\ obuf = <<>> /\ nbuf = Hello

\* C5: BSDiff(x, x) writes triples whose copy fields are all 0, no extra bytes
\* and diff bytes that are all zero; applied to x with declared size len(x)
\* the patch reproduces x.
NoOpDiff ==
    (DiffDone /\ obuf = nbuf) =>
        /\ \A i \in DOMAIN Controls : Controls[i].Copy = 0
        /\ patch[Len(patch)].Data = <<>>
        /\ \A i \in DOMAIN patch[Len(patch) - 1].Data : patch[Len(patch) - 1].Data[i] = 0
        /\ (PatchedWhole /\ newSize = Len(nbuf)) => (err = "nil" /\ written = nbuf)

NoOpDiffWitness ==
    /\ PatchedWhole /\ obuf = nbuf /\ newSize = Len(nbuf)
    /\ Len(nbuf) >= 2
    /\ \E i \in DOMAIN nbuf : nbuf[i] /= 0
    /\ written = nbuf

TruncatedIsCorrupt ==
    (pc = "returned" /\ NoSentinel) => (err = "ErrCorrupt" /\ written = <<>>)

\* C7 amended: when the stream ends before the sentinel has been read, BSPatch
\* returns the error of the failed ReadMessage, which is not ErrCorrupt, and
\* writes nothing.
TruncatedIsReadError ==
    (pc = "returned" /\ NoSentinel) => (err = "ReadError" /\ written = <<>>)

TruncatedWitness ==
    /\ pc = "returned" /\ NoSentinel
    /\ Len(stream) >= 1 /\ rd = Len(stream)
    /\ err = "ReadError"

\* C8: whenever BSPatch returns without error, the bytes its triples account
\* for equal the declared size: newpos = declared size.
SuccessCoversDeclared ==
    (pc = "returned" /\ err = "nil") =>
        (newpos = newSize /\ Covered(ctrlOps, Len(ctrlOps)) = newSize)

\* Longest common prefix of s with any suffix of old.
BestMatch(old, s) ==
    CHOOSE n \in 0..Len(s) :
        /\ \E p \in 0..Len(old) : matchlen(From(old, p), s) = n
        /\ \A p \in 0..Len(old) : matchlen(From(old, p), s) <= n

\* C9: for the suffix array I of old and every suffix s of new,
\* search(I, old, s, 0, len(old)) returns (pos, n) with n the common prefix of
\* old[pos:] and s, n the largest common prefix of s with any old[p:], and
\* n = 0 when no offset of old starts with the first byte of s.
SearchLongest ==
    pc = "scan" =>
        \A j \in 0..Len(nbuf) :
            \A r \in {search(I, obuf, From(nbuf, j), 0, Len(obuf))} :
                /\ r.pos \in 0..Len(obuf)
                /\ r.n = matchlen(From(obuf, r.pos), From(nbuf, j))
                /\ r.n = BestMatch(obuf, From(nbuf, j))
                /\ (j < Len(nbuf) /\ \A p \in 1..Len(obuf) : obuf[p] /= nbuf[j + 1])
                       => r.n = 0

SearchLongestWitness ==
    /\ pc = "scan"
    /\ \E j \in 0..(Len(nbuf) - 1) :
           \E r \in {search(I, obuf, From(nbuf, j), 0, Len(obuf))} :
               /\ r.n >= 2
               /\ r.pos > 0
               /\ \E p \in 0..Len(obuf) :
                      /\ matchlen(From(obuf, p), From(nbuf, j)) > 0
                      /\ matchlen(From(obuf, p), From(nbuf, j)) < r.n

\* Match lengths <<x, y>> of s at the two ends of the range rg on which the
\* search for s reaches its base case.
EndMatches(s, rg) ==
    << matchlen(From(obuf, At(I, rg[1])), s), matchlen(From(obuf, At(I, rg[2])), s) >>

\* What search returns for s, given that range and those match lengths; low
\* tells which end a tie must go to.
BaseCaseReturns(s, rg, xy, low) ==
    \A r \in {search(I, obuf, s, 0, Len(obuf))} :
        /\ r.n = IF xy[1] > xy[2] THEN xy[1] ELSE xy[2]
        /\ xy[1] > xy[2] => r.pos = At(I, rg[1])
        /\ xy[2] > xy[1] => r.pos = At(I, rg[2])
        /\ xy[1] = xy[2] => r.pos = At(I, IF low THEN rg[1] ELSE rg[2])

\* C10 as stated: in the base case of search the end with the longer common
\* prefix is returned, and on a tie the lower end I[st].
BaseCaseTieLow ==
    pc = "scan" =>
        \A j \in 0..Len(nbuf) :
            \A rg \in {searchRange(I, obuf, From(nbuf, j), <<0, Len(obuf)>>)} :
                BaseCaseReturns(From(nbuf, j), rg, EndMatches(From(nbuf, j), rg), TRUE)

\* C10 amended: in the base case of search the end with the longer common
\* prefix is returned, and on a tie the higher end I[en].
BaseCaseTieHigh ==
    pc = "scan" =>
        \A j \in 0..Len(nbuf) :
            \A rg \in {searchRange(I, obuf, From(nbuf, j), <<0, Len(obuf)>>)} :
                BaseCaseReturns(From(nbuf, j), rg, EndMatches(From(nbuf, j), rg), FALSE)

BaseCaseTieWitness ==
    /\ pc = "scan"
    /\ \E j \in 0..(Len(nbuf) - 1) :
           \E rg \in {searchRange(I, obuf, From(nbuf, j), <<0, Len(obuf)>>)} :
               \E xy \in {EndMatches(From(nbuf, j), rg)} :
                   /\ rg[1] < rg[2]
                   /\ xy[1] = xy[2]
                   /\ xy[1] > 0
                   /\ search(I, obuf, From(nbuf, j), 0, Len(obuf)).pos = At(I, rg[2])

\* Number of HEY_YOU_DID_IT ops among the first n messages of w.
RECURSIVE HeyCount(_, _)
HeyCount(w, n) ==
    IF n = 0 THEN 0
    ELSE HeyCount(w, n - 1) + (IF w[n] = SyncOp("HEY_YOU_DID_IT") THEN 1 ELSE 0)

\* Number of series headers among the first n messages decoded.
RECURSIVE HeadersIn(_, _)
HeadersIn(l, n) ==
    IF n = 0 THEN 0
    ELSE HeadersIn(l, n - 1) + (IF l[n].kind = "SyncHeader" THEN 1 ELSE 0)

\* C11: on a stream of well-formed RSYNC and BSDIFF series, whichever of the
\* primary loop, analyzeSeries and skipSeries consumed the series before it,
\* the reader stands before the header of file fileIndex exactly fileIndex
\* terminals into the stream, right behind a terminal, and the next message is
\* that file's series header; no reader fails, and each returns having
\* consumed the whole stream.
CursorAligned ==
    wire \in WellFormedWires =>
        /\ probeErr \in {"none", "nil"}
        /\ reading = "header" =>
               /\ HeyCount(wire, rctx) = fileIndex
               /\ rctx > 0 => wire[rctx] = SyncOp("HEY_YOU_DID_IT")
               /\ fileIndex \in FileIndices =>
                      /\ rctx < Len(wire)
                      /\ wire[rctx + 1].kind = "SyncHeader"
                      /\ wire[rctx + 1].FileIndex = fileIndex
        /\ reading = "returned" => (rctx = Len(wire) /\ probeErr = "nil")

CursorAlignedWitness ==
    /\ wire \in WellFormedWires
    /\ reader = "doDeepAnalysis" /\ reading = "returned" /\ probeErr = "nil"
    /\ topIndexMap = {0}
    /\ wire[1].Type = "RSYNC" /\ wire[2] = SyncOp("DATA")
    /\ wire[4].Type = "BSDIFF" /\ wire[6] = Control(FALSE)
    /\ rctx = Len(wire)

\* C12: a series header whose FileIndex is not the number of headers read
\* before it is the last message read and the analysis returns an error; and
\* every series header but the first is read right after a HEY_YOU_DID_IT.
ContainerOrder ==
    \A i \in DOMAIN log :
        log[i].kind = "SyncHeader" =>
            /\ log[i].FileIndex /= HeadersIn(log, i - 1) =>
                   (i = Len(log) /\ probeErr = "error" /\ reading = "returned")
            /\ i > 1 => log[i - 1] = SyncOp("HEY_YOU_DID_IT")

\* C13: an analysis that read, after the final control message of a BSDIFF
\* series, a SyncOp of a type other than HEY_YOU_DID_IT returns an error.
MissingTrailerFails ==
    (/\ reading = "returned"
     /\ \E i \in 1..(Len(log) - 1) :
            /\ log[i] = Control(TRUE)
            /\ log[i + 1].kind = "SyncOp"
            /\ log[i + 1].Type /= "HEY_YOU_DID_IT")
        => probeErr = "error"

\* C14: a series header of a type that is neither RSYNC nor BSDIFF is the
\* last message the analysis reads, and the analysis returns an error.
UnknownTypeFails ==
    \A i \in DOMAIN log :
        (log[i].kind = "SyncHeader" /\ log[i].Type = "OTHER") =>
            (i = Len(log) /\ probeErr = "error" /\ reading = "returned")

\* Sum of the add fields, and of the copy fields, of the first j triples of ops.
RECURSIVE SumAdd(_, _)
SumAdd(ops, j) == IF j = 0 THEN 0 ELSE SumAdd(ops, j - 1) + ops[j].Add

RECURSIVE SumCopy(_, _)
SumCopy(ops, j) == IF j = 0 THEN 0 ELSE SumCopy(ops, j - 1) + ops[j].Copy

\* C15: what BSDiff has written when it returns is zero or more control
\* triples with add >= 0, then one sentinel control (add = -1, copy = 0,
\* seek = 0), then one diff block, then one extra block, and nothing else (it
\* writes the triples first); BSPatch, given all of it, reads the controls up
\* to the sentinel, then the diff block, then the extra block.
MessageOrder ==
    /\ \A i \in DOMAIN patch :
           i <= Len(emitted) => (patch[i].type = "control" /\ patch[i].Add >= 0)
    /\ pc \in {"qsufsort", "doubling", "scan", "emit"} => Len(patch) = Len(emitted)
    /\ DiffDone =>
           /\ Len(patch) = Len(emitted) + 3
           /\ patch[Len(patch) - 2] = BsdiffControl(-1, 0, 0)
           /\ patch[Len(patch) - 1].type = "diff"
           /\ patch[Len(patch)].type = "extra"
    /\ (stream = patch /\ pc = "control") =>
           (rd = Len(ctrlOps) /\ rd <= Len(emitted))
    /\ (stream = patch /\ pc = "diffmsg") =>
           (rd = Len(patch) - 2 /\ At(stream, rd).type = "diff")
    /\ (stream = patch /\ pc = "extramsg") =>
           (rd = Len(patch) - 1 /\ At(stream, rd).type = "extra"
            /\ diff = patch[Len(patch) - 1].Data)
    /\ (stream = patch /\ pc = "apply") =>
           /\ rd = Len(patch)
           /\ ctrlOps = [i \in 1..Len(emitted) |->
                            [Add |-> patch[i].Add, Seek |-> patch[i].Seek,
                             Copy |-> patch[i].Copy]]
           /\ diff = patch[Len(patch) - 1].Data
           /\ extra = patch[Len(patch)].Data

MessageOrderWitness ==
    /\ pc = "apply" /\ stream = patch
    /\ Len(ctrlOps) >= 2
    /\ Len(diff) > 0 /\ Len(extra) > 0

\* C16: when BSDiff has returned, the diff block is as long as the sum of the
\* add fields of the triples and the extra block as long as the sum of their
\* copy fields, and the diff byte of each add position of each triple is the
\* new byte minus the old byte modulo 256.
DataLengths ==
    DiffDone =>
        /\ Len(patch[Len(patch) - 1].Data) = SumAdd(Controls, Len(Controls))
        /\ Len(patch[Len(patch)].Data) = SumCopy(Controls, Len(Controls))
        /\ \A j \in DOMAIN Controls :
               \A i \in 0..(Controls[j].Add - 1) :
                   At(patch[Len(patch) - 1].Data, SumAdd(Controls, j - 1) + i)
                       = (At(nbuf, emitted[j].lastscan + i)
                              - At(obuf, emitted[j].lastpos + i)) % 256

DataLengthsWitness ==
    /\ pc = "diffed"
    /\ Len(Controls) >= 2
    /\ Controls[1].Add > 0 /\ Controls[2].Add > 0
    /\ Len(patch[Len(patch)].Data) > 0
    /\ \E i \in DOMAIN patch[Len(patch) - 1].Data : patch[Len(patch) - 1].Data[i] /= 0

\* What the iteration of the outer loop of BSDiff that starts in this state
\* leaves in scan and length (lines 210-228).
IterationEnds(after) ==
    \A r \in {scanLoop(I, obuf, nbuf, lastoffset, scan + length, scan + length,
                       0, pos, length)} : after[r.scan, r.length]

\* What C17 says of BSDiff apart from the scan loop's progress: for an empty
\* old buffer the doubling loop of qsufsort runs no iteration and the suffix
\* array is [0]; for any old buffer an iteration of the doubling loop starts
\* only with h <= 2 * len(old), and h doubles each time, so the loop exits; scan
\* never exceeds len(new).
LoopsBounded ==
    /\ (obuf = <<>> /\ pc = "doubling") => (qsufsortSorted(I, Len(obuf)) /\ h = 1)
    /\ (obuf = <<>> /\ pc = "scan") => I = <<0>>
    /\ (pc = "doubling" /\ ~qsufsortSorted(I, Len(obuf))) => h <= 2 * Len(obuf)
    /\ scan <= Len(nbuf)

\* C17 as stated: BSDiff terminates, and every iteration of the outer scan
\* loop either strictly increases scan or ends with scan = len(new).
ScanAdvances ==
    /\ LoopsBounded
    /\ (pc = "scan" /\ scan < Len(nbuf)) =>
           IterationEnds([s \in 0..Len(nbuf), l \in 0..Len(nbuf) |->
                             s > scan \/ s = Len(nbuf)])

\* C17 amended: BSDiff terminates, and every iteration of the outer scan loop
\* ends with scan = len(new), or else with a match of length > 0 that lies
\* within new, so that the scan += length of the next iteration strictly
\* increases scan; no iteration decreases scan.
ScanProgresses ==
    /\ LoopsBounded
    /\ (pc = "scan" /\ scan < Len(nbuf)) =>
           IterationEnds([s \in 0..Len(nbuf), l \in 0..Len(nbuf) |->
                             /\ s >= scan + length
                             /\ \/ s = Len(nbuf)
                                \/ (l > 0 /\ s + l <= Len(nbuf))])

\* An iteration of the outer loop has ended where it began, at scan = 0, with
\* a match to step over, after a suffix sort of more than one pass.
ScanProgressesWitness ==
    /\ pc = "scan"
    /\ scan = 0 /\ length > 0
    /\ scan + length < Len(nbuf)
    /\ h > 2

\* The extents of the forward and backward runs before lines 258-278 resolve
\* their overlap: <<lenf, lenb>>.
RawExtents ==
    << extendForward(obuf, nbuf, lastscan, lastpos, scan, 0, 0, 0, 0),
       IF scan < Len(nbuf)
       THEN extendBackward(obuf, nbuf, lastscan, scan, pos, 1, 0, 0, 0)
       ELSE 0 >>

\* C18: every control triple BSDiff writes has add >= 0 and copy >= 0 (the
\* forward and backward runs do not overlap once lines 258-278 have run:
\* lastscan+lenf <= scan-lenb); the add and copy fields of a whole run sum to
\* len(new), dblen and eblen never exceed len(new), and for an empty new
\* buffer only the sentinel is written.
TriplesCoverNew ==
    /\ \A i \in 1..Len(emitted) : patch[i].Add >= 0 /\ patch[i].Copy >= 0
    /\ pc = "emit" =>
           \A e \in {extents(obuf, nbuf, lastscan, lastpos, scan, pos)} :
               /\ e[1] >= 0 /\ e[2] >= 0
               /\ lastscan + e[1] <= scan - e[2]
    /\ dblen <= Len(nbuf) /\ eblen <= Len(nbuf)
    /\ dblen + eblen = Covered(patch, Len(emitted))
    /\ DiffDone => Covered(Controls, Len(Controls)) = Len(nbuf)
    /\ (DiffDone /\ nbuf = <<>>) => (Controls = <<>> /\ Len(patch) = 3)

\* BSDiff stands before writing a triple whose forward and backward runs
\* overlapped before the resolution.
TriplesCoverNewWitness ==
    /\ pc = "emit"
    /\ lastscan + RawExtents[1] > scan - RawExtents[2]
    /\ RawExtents[2] > 0

\* C19: when BSPatch applies the whole patch of BSDiff(old, new) to old, then
\* before its k-th triple oldpos is the lastpos and newpos the lastscan that
\* BSDiff held when it wrote that triple, and 0 <= oldpos and
\* oldpos + add <= len(old).
CursorsCorrespond ==
    (pc = "apply" /\ stream = patch /\ k < Len(ctrlOps)) =>
        /\ oldpos = emitted[k + 1].lastpos
        /\ newpos = emitted[k + 1].lastscan
        /\ 0 <= oldpos
        /\ oldpos + ctrlOps[k + 1].Add <= Len(obuf)

\* BSPatch stands before a triple with bytes to add, after a triple that
\* moved the old cursor back.
CursorsCorrespondWitness ==
    /\ pc = "apply" /\ stream = patch
    /\ k >= 1 /\ k < Len(ctrlOps)
    /\ ctrlOps[k].Seek < 0
    /\ ctrlOps[k + 1].Add > 0
    /\ oldpos > 0

\* C20: whatever control triples, diff block and extra block BSPatch is
\* given, it returns an error having written nothing, or it completes; it
\* never indexes old, the diff block, the extra block or its output buffer
\* outside their bounds.
NeverFaults ==
    pc = "returned" =>
        \/ err = "nil"
        \/ (err \in {"ErrCorrupt", "ReadError"} /\ written = <<>>)

====
